---- MODULE Spec2Model ----
(***************************************************************************)
(* Transaction ledger and costing engine of the third iteration of         *)
(* src/backend.js (lines 311-642): the products, balances and payables     *)
(* documents, the append-only transaction directory, and the products,     *)
(* purchase, payment, sale and profit-and-loss handlers, each cut at its   *)
(* await points.                                                           *)
(*                                                                         *)
(* Abstractions, all stated where they are made:                           *)
(*  - numbers are integers; the weighted-average cost is an exact          *)
(*    rational (num/den), so IEEE rounding is not modelled;                *)
(*  - atomicWriteJson (temporary file + rename) is one step, except in     *)
(*    SpecTmp, where the writes of the transaction directory are cut       *)
(*    between fs.writeFile and fs.rename; fs.writeFile is one step;        *)
(*  - the scan of loadPurchaseBatches is one step;                         *)
(*  - the products document starts with every product of Products in it   *)
(*    and records only which products exist (a product created by a        *)
(*    request has that request's number as its uuid); the suppliers        *)
(*    document is not modelled (its one mutating route has the shape of    *)
(*    POST /api/products);                                                 *)
(*  - the Date.now() of the file name (line 384) returns the value of the  *)
(*    Date.now() of the tx built just before it (lines 510, 553): the two  *)
(*    calls run in one synchronous stretch.                                *)
(***************************************************************************)
EXTENDS Integers, Sequences, FiniteSets, TLC

\* ------------------------------------------------------------------ bounds
\* Requests issued in one behaviour, and requests in flight at once.
MaxReq == 3
MaxInFlight == 2

Products == {"p1", "p2"}
Warehouses == {"default"}
Suppliers == {"s1", "s2"}
\* costingMethod as sent by the client; "" stands for an absent field.
Methods == {"", "FIFO", "fifo", "AVG"}

\* Inputs of the concurrent specification: small, with the values the
\* handlers' field checks let through (negative) and stop (zero).
Quantities == {-1, 0, 1, 2}
UnitCosts == {1}
UnitPrices == {3}

\* Inputs of the payables specification: purchases of one product and
\* payments, for two suppliers.
PayQuantities == {-1, 0, 1}
PayUnitCosts == {1, 2}
Amounts == {-1, 0, 1, 3}

\* Inputs of the sequential specification: the quantities and costs of the
\* scenario of spec section 8 (10 @ 2, 5 @ 4, sale of 12).
SeqQuantities == {5, 10, 12}
SeqUnitCosts == {2, 4}

\* Inputs of the ledger-scan specification: purchases and sales of one
\* product that may fall in the same millisecond, and report windows around
\* their timestamps.
ScanQuantities == {1, 2}
ScanUnitCosts == {2, 4}
BoundValues == {0, 1, 2}

\* Inputs of the products specification: purchases of one unit.
ProdQuantities == {1}

\* Inputs of the temporary-file specification: purchases and sales of one
\* product.
TmpQuantities == {1, 2}

\* Inputs of the signed sequential specification: the quantities that pass
\* the handlers' field checks (!quantity), of either sign.
SignedQuantities == {-1, 1, 2}

Reqs == 1..MaxReq

\* --------------------------------------------------------------- rationals
RECURSIVE GCD(_, _)
GCD(a, b) == IF b = 0 THEN a ELSE GCD(b, a % b)

Abs(x) == IF x < 0 THEN -x ELSE x

\* n/d in lowest terms with a positive denominator; 0/0 is JavaScript's NaN.
Rat(n, d) ==
  IF d = 0 THEN [num |-> 0, den |-> 0]
  ELSE LET g == GCD(Abs(n), Abs(d))
           s == IF d < 0 THEN -1 ELSE 1
       IN [num |-> (s * n) \div g, den |-> (s * d) \div g]

RatInt(n) == [num |-> n, den |-> 1]

RatAdd(a, b) == Rat(a.num * b.den + b.num * a.den, a.den * b.den)

RatSub(a, b) == Rat(a.num * b.den - b.num * a.den, a.den * b.den)

\* ------------------------------------------------------------------- state
VARIABLES
  products,   \* data/products.json: which ids have a product
  balances,   \* data/balances.json
  payables,   \* data/payables.json
  ledger,     \* data/transactions/: the files' contents, in creation order
  nameOrder,  \* the same files, sorted by file name (indices into ledger)
  temps,      \* data/transactions/: the file <name>.tmp.<pid> of each entry
  now,        \* the last value Date.now() returned
  lock,       \* proper-lockfile: holder of each document's lock, 0 if free
  req         \* the requests: inputs, position and locals of each handler

vars == <<products, balances, payables, ledger, nameOrder, temps, now, lock, req>>

\* FILES.products with the products of Products created and none since.
SeededProducts == [has |-> [p \in Products |-> TRUE], made |-> {}]

\* FILES.balances after "Init files if missing": {}.
EmptyBalances ==
  [has |-> [p \in Products |-> FALSE],
   qty |-> [p \in Products |-> [w \in Warehouses |-> 0]]]

NoPayable == [exists |-> FALSE, amount |-> 0, invoices |-> <<>>, payments |-> <<>>]

\* FILES.payables after "Init files if missing": {}.
EmptyPayables == [s \in Suppliers |-> NoPayable]

NoTx ==
  [id |-> 0, type |-> "", productId |-> "", warehouseId |-> "", supplierId |-> "",
   quantity |-> 0, unitCost |-> 0, total |-> 0, cogs |-> RatInt(0),
   timestamp |-> 0, hasRemaining |-> FALSE, remaining |-> 0]

\* No temporary file in the transaction directory. A temporary file is known
\* by the id of the tx whose file it is written for (the request that wrote
\* that tx): process.pid is the same for every writer, so the name
\* <name>.tmp.<pid> is one per target file. NoTx stands for no such file.
NoTemps == [t \in Reqs |-> NoTx]

\* req.query.from, req.query.to: absent, or an integer.
NoBound == [given |-> FALSE, val |-> 0]

Bounds == {NoBound} \cup {[given |-> TRUE, val |-> v] : v \in BoundValues}

\* let revenue=0, cogs=0, purchases=0
NoReport == [revenue |-> 0, cogs |-> RatInt(0), purchases |-> 0, grossProfit |-> RatInt(0)]

NoReq ==
  [op |-> "none", pc |-> "idle", productId |-> "", warehouseId |-> "",
   supplierId |-> "", quantity |-> 0, unitCost |-> 0, fifo |-> FALSE,
   bal |-> EmptyBalances, avail |-> 0, cogs |-> RatInt(0), tx |-> NoTx,
   pay |-> EmptyPayables, files |-> <<>>, idx |-> 0, rtc |-> 0, obj |-> NoTx,
   qfrom |-> NoBound, qto |-> NoBound, from |-> 0, to |-> 0, report |-> NoReport,
   prod |-> SeededProducts,
   status |-> 0, error |-> ""]

Init ==
  /\ products = SeededProducts
  /\ balances = EmptyBalances
  /\ payables = EmptyPayables
  /\ ledger = <<>>
  /\ nameOrder = <<>>
  /\ temps = NoTemps
  /\ now = 0
  /\ lock = [f \in {"products", "balances", "payables"} |-> 0]
  /\ req = [r \in Reqs |-> NoReq]

\* ----------------------------------------------------------------- helpers
InFlight(r) == req[r].op # "none" /\ req[r].pc # "done"

NumInFlight == Cardinality({r \in Reqs : InFlight(r)})

\* Requests arrive in the order of their numbers.
CanStart(r, inflight) ==
  /\ req[r].op = "none"
  /\ \A q \in Reqs : req[q].pc # "exited"
  /\ \A q \in Reqs : q < r => req[q].op # "none"
  /\ NumInFlight < inflight

\* JavaScript's !x on a number: true for 0 (and for an absent field).
Falsy(x) == x = 0

\* res.status(code).json({error}) or res.json({ok: true}): the handler ends;
\* its locals are dropped, its inputs and its response are kept (av is the
\* "available" field of the insufficient-stock response).
Respond(rec, code, err, av) ==
  [NoReq EXCEPT !.op = rec.op, !.pc = "done",
                !.productId = rec.productId, !.warehouseId = rec.warehouseId,
                !.supplierId = rec.supplierId, !.quantity = rec.quantity,
                !.fifo = rec.fifo, !.avail = av, !.status = code, !.error = err]

\* (balances[productId]||{})[warehouseId] || 0
BalanceOf(doc, p, w) == IF doc.has[p] THEN doc.qty[p][w] ELSE 0

\* lockfile.lock(filePath, {retries}): the lock is taken when it is free.
LockFree(f) == lock[f] = 0

\* lockfile.lock gives up (throws) after its retries when another request
\* holds the lock all that time.
LockHeldByOther(f, r) == lock[f] # 0 /\ lock[f] # r

Min(a, b) == IF a < b THEN a ELSE b

\* Date.now(): the clock has not moved since the last call (d = 0) or has
\* (d = 1); D is the set of choices a specification allows.
DateNow(d) == now + d

\* `${Date.now()}_${uuidv4()}.json` then files.sort(): the new file (index
\* Len(ledger)+1, name prefix ts) takes a place among the names according to
\* its timestamp prefix; among equal prefixes the random uuid decides.
NamePlaces(ts) ==
  {i \in 0..Len(nameOrder) :
     /\ \A j \in 1..i : ledger[nameOrder[j]].timestamp <= ts
     /\ \A j \in (i + 1)..Len(nameOrder) : ledger[nameOrder[j]].timestamp >= ts}

InsertName(i) ==
  SubSeq(nameOrder, 1, i) \o <<Len(ledger) + 1>> \o SubSeq(nameOrder, i + 1, Len(nameOrder))

\* writeTransaction(tx): one new file in the transaction directory.
WriteTransaction(tx) ==
  \E i \in NamePlaces(tx.timestamp) :
    /\ ledger' = Append(ledger, tx)
    /\ nameOrder' = InsertName(i)

\* ------------------------------------------------- the transaction directory
\* A name of the directory: the file of the tx with id t (`${ts}_${uuid}.json`)
\* or the temporary file written for it (the same name + '.tmp.' + pid).
FileName(isTmp, t) == [tmp |-> isTmp, id |-> t]

HasTemp(t) == temps[t].id # 0

\* The place in ledger of the file of tx t, which is in the directory.
FileOf(t) == CHOOSE i \in 1..Len(ledger) : ledger[i].id = t

\* fs.readJson(path.join(TRANSACTIONS_DIR, f)) of a name that is there.
ReadJson(f) == IF f.tmp THEN temps[f.id] ELSE ledger[FileOf(f.id)]

\* fs.readJson throws ENOENT: the name was listed and is gone. Only a
\* temporary file ever leaves the directory (fs.rename).
Enoent(f) == f.tmp /\ ~HasTemp(f.id)

\* The contents of the temporary files of the txs t..MaxReq that are there.
RECURSIVE TempObjects(_)
TempObjects(t) ==
  IF t > MaxReq THEN <<>>
  ELSE (IF HasTemp(t) THEN <<temps[t]>> ELSE <<>>) \o TempObjects(t + 1)

\* What a loop over fs.readdir(TRANSACTIONS_DIR) reads: the content of every
\* file of the directory, temporary files included (readdir does not filter).
DirectoryObjects == ledger \o TempObjects(1)

\* files.sort() with the temporary files of the txs t..MaxReq put in: a
\* temporary name is its target's name with a suffix, so it sorts right after
\* its target when that is there, and where its target will be when it is
\* not (after the names with a smaller timestamp prefix; no specification has
\* both temporary files and equal timestamps).
RECURSIVE SortedWithTemps(_, _)
SortedWithTemps(names, t) ==
  IF t > MaxReq THEN names
  ELSE IF ~HasTemp(t) THEN SortedWithTemps(names, t + 1)
  ELSE LET before == {k \in 1..Len(names) :
                        \/ names[k].id = t
                        \/ ReadJson(names[k]).timestamp < temps[t].timestamp}
               n == Cardinality(before)
           IN SortedWithTemps(SubSeq(names, 1, n) \o <<FileName(TRUE, t)>>
                                \o SubSeq(names, n + 1, Len(names)), t + 1)

\* fs.readdir(TRANSACTIONS_DIR) then files.sort().
SortedNames ==
  SortedWithTemps([k \in 1..Len(nameOrder) |-> FileName(FALSE, ledger[nameOrder[k]].id)], 1)

\* ----------------------------------------------------------------- withLock
LockFile(pc) ==
  IF pc \in {"p_lockBalances", "s_lockBalances"} THEN "balances"
  ELSE IF pc = "c_lockProducts" THEN "products" ELSE "payables"

LockPcs ==
  {"p_lockBalances", "p_lockPayables", "s_lockBalances", "y_lockPayables", "c_lockProducts"}

AfterLock(pc) ==
  CASE pc = "p_lockBalances" -> "p_writeBalances"
    [] pc = "p_lockPayables" -> "p_writePayables"
    [] pc = "s_lockBalances" -> "s_writeBalances"
    [] pc = "c_lockProducts" -> "c_writeProducts"
    [] OTHER -> "y_writePayables"

\* withLock: lockfile.lock succeeded; fn (the atomic write) runs next.
LockAcquire(r) ==
  /\ req[r].pc \in LockPcs
  /\ LockFree(LockFile(req[r].pc))
  /\ lock' = [lock EXCEPT ![LockFile(req[r].pc)] = r]
  /\ req' = [req EXCEPT ![r].pc = AfterLock(req[r].pc)]
  /\ UNCHANGED <<products, balances, payables, ledger, nameOrder, temps, now>>

\* withLock: lockfile.lock threw after its retries; the handler's catch
\* answers 500 (the purchase, payment and sale routes).
LockGiveUp(r) ==
  /\ req[r].pc \in LockPcs \ {"c_lockProducts"}
  /\ LockHeldByOther(LockFile(req[r].pc), r)
  /\ req' = [req EXCEPT ![r] = Respond(req[r], 500, "lock", 0)]
  /\ UNCHANGED <<products, balances, payables, ledger, nameOrder, temps, now, lock>>

\* ------------------------------------------------------ POST /api/purchase
PurchaseStart(r, inflight, P, S, Q, C) ==
  /\ CanStart(r, inflight)
  /\ \E p \in P, w \in Warehouses, s \in S, q \in Q, c \in C :
       LET rec == [NoReq EXCEPT !.op = "purchase", !.productId = p, !.warehouseId = w,
                                !.supplierId = s, !.quantity = q, !.unitCost = c]
       IN req' = [req EXCEPT ![r] =
                    IF Falsy(q) \/ Falsy(c)
                    THEN Respond(rec, 400, "missing fields", 0)
                    ELSE IF ~products.has[p]
                    THEN Respond(rec, 400, "invalid product", 0)
                    ELSE [rec EXCEPT !.pc = "p_getBalances"]]
  /\ UNCHANGED <<products, balances, payables, ledger, nameOrder, temps, now, lock>>

\* balances[productId] = balances[productId] || {};
\* balances[productId][warehouseId] = (balances[productId][warehouseId] || 0) + quantity
Increased(doc, p, w, q) ==
  [has |-> [doc.has EXCEPT ![p] = TRUE],
   qty |-> [doc.qty EXCEPT ![p][w] = BalanceOf(doc, p, w) + q]]

PurchaseGetBalances(r) ==
  /\ req[r].pc = "p_getBalances"
  /\ req' = [req EXCEPT ![r].bal = Increased(balances, req[r].productId,
                                             req[r].warehouseId, req[r].quantity),
                        ![r].pc = "p_lockBalances"]
  /\ UNCHANGED <<products, balances, payables, ledger, nameOrder, temps, now, lock>>

PurchaseTx(r, ts) ==
  [id |-> r, type |-> "PURCHASE", productId |-> req[r].productId,
   warehouseId |-> req[r].warehouseId, supplierId |-> req[r].supplierId,
   quantity |-> req[r].quantity, unitCost |-> req[r].unitCost,
   total |-> req[r].quantity * req[r].unitCost, cogs |-> RatInt(0),
   timestamp |-> ts, hasRemaining |-> TRUE, remaining |-> req[r].quantity]

\* saveBalances' write under the lock, the release, then the tx is built.
PurchaseWriteBalances(r, D) ==
  /\ req[r].pc = "p_writeBalances"
  /\ balances' = req[r].bal
  /\ lock' = [lock EXCEPT !["balances"] = 0]
  /\ \E d \in D :
       /\ now' = DateNow(d)
       /\ req' = [req EXCEPT ![r].tx = PurchaseTx(r, DateNow(d)), ![r].pc = "p_writeTx"]
  /\ UNCHANGED <<products, payables, ledger, nameOrder, temps>>

PurchaseWriteTx(r) ==
  /\ req[r].pc = "p_writeTx"
  /\ WriteTransaction(req[r].tx)
  /\ req' = [req EXCEPT ![r].pc = "p_getPayables"]
  /\ UNCHANGED <<products, balances, payables, temps, now, lock>>

\* payables[supplierId] = payables[supplierId] || {amount: 0, invoices: []};
\* amount += quantity*unitCost; invoices.push({id, amount, ...})
Invoiced(doc, s, tx) ==
  [doc EXCEPT ![s] = [exists |-> TRUE,
                      amount |-> doc[s].amount + tx.quantity * tx.unitCost,
                      invoices |-> Append(doc[s].invoices, <<tx.id, tx.total>>),
                      payments |-> doc[s].payments]]

PurchaseGetPayables(r) ==
  /\ req[r].pc = "p_getPayables"
  /\ req' = [req EXCEPT ![r].pay = Invoiced(payables, req[r].supplierId, req[r].tx),
                        ![r].pc = "p_lockPayables"]
  /\ UNCHANGED <<products, balances, payables, ledger, nameOrder, temps, now, lock>>

PurchaseWritePayables(r) ==
  /\ req[r].pc = "p_writePayables"
  /\ payables' = req[r].pay
  /\ lock' = [lock EXCEPT !["payables"] = 0]
  /\ req' = [req EXCEPT ![r] = Respond(req[r], 200, "", 0)]
  /\ UNCHANGED <<products, balances, ledger, nameOrder, temps, now>>

\* -------------------------------------------------- POST /api/payables/pay
PayStart(r, inflight, S, A) ==
  /\ CanStart(r, inflight)
  /\ \E s \in S, a \in A :
       LET rec == [NoReq EXCEPT !.op = "pay", !.supplierId = s, !.quantity = a]
       IN req' = [req EXCEPT ![r] =
                    IF Falsy(a)
                    THEN Respond(rec, 400, "missing fields", 0)
                    ELSE [rec EXCEPT !.pc = "y_getPayables"]]
  /\ UNCHANGED <<products, balances, payables, ledger, nameOrder, temps, now, lock>>

\* amount -= amount paid; if (amount < 0) amount = 0; payments.push({...})
Paid(doc, s, r, a) ==
  [doc EXCEPT ![s].amount = IF doc[s].amount - a < 0 THEN 0 ELSE doc[s].amount - a,
              ![s].payments = Append(doc[s].payments, <<r, a>>)]

\* The check for a missing record left out.
MissingPayableNever(doc, s) == FALSE

\* if (!payables[supplierId]) return 400 'no payable'
MissingPayable(doc, s) == ~doc[s].exists

PayGetPayables(r) ==
  /\ req[r].pc = "y_getPayables"
  /\ req' = [req EXCEPT ![r] =
               IF MissingPayable(payables, req[r].supplierId)
               THEN Respond(req[r], 400, "no payable", 0)
               ELSE [req[r] EXCEPT !.pay = Paid(payables, req[r].supplierId, r,
                                                req[r].quantity),
                                   !.pc = "y_lockPayables"]]
  /\ UNCHANGED <<products, balances, payables, ledger, nameOrder, temps, now, lock>>

PayWritePayables(r) ==
  /\ req[r].pc = "y_writePayables"
  /\ payables' = req[r].pay
  /\ lock' = [lock EXCEPT !["payables"] = 0]
  /\ req' = [req EXCEPT ![r] = Respond(req[r], 200, "", 0)]
  /\ UNCHANGED <<products, balances, ledger, nameOrder, temps, now>>

\* ------------------------------------------------------------------ costing
IsLot(tx, p, w) == tx.type = "PURCHASE" /\ tx.productId = p /\ tx.warehouseId = w

\* (b.remaining !== undefined) ? b.remaining : b.quantity
Available(b) == IF b.hasRemaining THEN b.remaining ELSE b.quantity

\* loadPurchaseBatches: the PURCHASE objects of the pair among the files of
\* the directory (every name readdir returns is read, a temporary file too),
\* in the order of fs.readdir (unspecified) and then stably sorted by
\* timestamp: every arrangement ascending in timestamp is a possible result.
LoadPurchaseBatches(p, w) ==
  LET objs == DirectoryObjects
      lots == {i \in 1..Len(objs) : IsLot(objs[i], p, w)}
      n == Cardinality(lots)
  IN {[k \in 1..n |-> objs[f[k]]] :
        f \in {g \in [1..n -> lots] :
                 /\ \A a, b \in 1..n : a # b => g[a] # g[b]
                 /\ \A a, b \in 1..n :
                      a < b => objs[g[a]].timestamp <= objs[g[b]].timestamp}}

\* The loop taking each batch whole, without Math.min.
RECURSIVE FifoLoopNoMin(_, _, _, _)
FifoLoopNoMin(batches, i, remaining, cogs) ==
  IF i > Len(batches) THEN <<remaining, cogs>>
  ELSE LET available == Available(batches[i])
       IN IF available <= 0 THEN FifoLoopNoMin(batches, i + 1, remaining, cogs)
          ELSE LET rest == remaining - available
                   cost == cogs + available * batches[i].unitCost
               IN IF rest <= 0 THEN <<rest, cost>>
                  ELSE FifoLoopNoMin(batches, i + 1, rest, cost)

\* The loop of computeCOGS_FIFO from batch i on: <<remaining, cogs>> at its end.
RECURSIVE FifoLoop(_, _, _, _)
FifoLoop(batches, i, remaining, cogs) ==
  IF i > Len(batches) THEN <<remaining, cogs>>
  ELSE LET available == Available(batches[i])
       IN IF available <= 0 THEN FifoLoop(batches, i + 1, remaining, cogs)
          ELSE LET take == Min(available, remaining)
                   rest == remaining - take
                   cost == cogs + take * batches[i].unitCost
               IN IF rest <= 0 THEN <<rest, cost>>
                  ELSE FifoLoop(batches, i + 1, rest, cost)

\* computeCOGS_FIFO: ok = FALSE stands for the thrown 'Insufficient stock for FIFO'.
ComputeCOGS_FIFO(batches, qty) ==
  LET end == FifoLoop(batches, 1, qty, 0)
  IN [ok |-> ~(end[1] > 0), cogs |-> RatInt(end[2])]

\* totalQty += available
RECURSIVE SumAvailable(_, _)
SumAvailable(batches, i) ==
  IF i > Len(batches) THEN 0 ELSE Available(batches[i]) + SumAvailable(batches, i + 1)

\* The total cost without the weights: unit costs alone.
RECURSIVE SumCostUnweighted(_, _)
SumCostUnweighted(batches, i) ==
  IF i > Len(batches) THEN 0
  ELSE batches[i].unitCost + SumCostUnweighted(batches, i + 1)

\* totalCost += available * b.unitCost
RECURSIVE SumCost(_, _)
SumCost(batches, i) ==
  IF i > Len(batches) THEN 0
  ELSE Available(batches[i]) * batches[i].unitCost + SumCost(batches, i + 1)

\* computeCOGS_Avg: avg = totalCost / totalQty; return avg * qty.
ComputeCOGS_Avg(batches, qty) ==
  LET totalQty == SumAvailable(batches, 1)
      totalCost == SumCost(batches, 1)
  IN [ok |-> ~(totalQty < qty), cogs |-> Rat(totalCost * qty, totalQty)]

\* ---------------------------------------------------------- POST /api/sale
ToUpperCase(m) == IF m = "fifo" THEN "FIFO" ELSE m

\* (costingMethod||'FIFO').toUpperCase() === 'FIFO', with the default of the
\* destructuring for an absent field.
IsFIFO(m) == ToUpperCase(IF m = "" THEN "FIFO" ELSE m) = "FIFO"

SaleStart(r, inflight, P, Q) ==
  /\ CanStart(r, inflight)
  /\ \E p \in P, w \in Warehouses, q \in Q, u \in UnitPrices, m \in Methods :
       LET rec == [NoReq EXCEPT !.op = "sale", !.productId = p, !.warehouseId = w,
                                !.quantity = q, !.unitCost = u, !.fifo = IsFIFO(m)]
       IN req' = [req EXCEPT ![r] =
                    IF Falsy(q) \/ Falsy(u)
                    THEN Respond(rec, 400, "missing fields", 0)
                    ELSE [rec EXCEPT !.pc = "s_getBalances"]]
  /\ UNCHANGED <<products, balances, payables, ledger, nameOrder, temps, now, lock>>

\* The availability check one unit too lenient.
InsufficientOffByOne(avail, quantity) == avail < quantity - 1

\* if (avail < quantity) return 400 'insufficient stock'
Insufficient(avail, quantity) == avail < quantity

SaleGetBalances(r) ==
  /\ req[r].pc = "s_getBalances"
  /\ LET avail == BalanceOf(balances, req[r].productId, req[r].warehouseId)
     IN req' = [req EXCEPT ![r] =
                  IF Insufficient(avail, req[r].quantity)
                  THEN Respond(req[r], 400, "insufficient stock", avail)
                  ELSE [req[r] EXCEPT !.bal = balances, !.avail = avail, !.pc = "s_cost"]]
  /\ UNCHANGED <<products, balances, payables, ledger, nameOrder, temps, now, lock>>

SaleTx(r, cogs, ts) ==
  [id |-> r, type |-> "SALE", productId |-> req[r].productId,
   warehouseId |-> req[r].warehouseId, supplierId |-> "",
   quantity |-> req[r].quantity, unitCost |-> req[r].unitCost,
   total |-> req[r].quantity * req[r].unitCost, cogs |-> cogs,
   timestamp |-> ts, hasRemaining |-> FALSE, remaining |-> 0]

\* The costing call and, when it returns, the tx built from its result.
SaleCost(r, D) ==
  /\ req[r].pc = "s_cost"
  /\ \E batches \in LoadPurchaseBatches(req[r].productId, req[r].warehouseId) :
       LET res == IF req[r].fifo THEN ComputeCOGS_FIFO(batches, req[r].quantity)
                  ELSE ComputeCOGS_Avg(batches, req[r].quantity)
       IN IF ~res.ok
          THEN /\ req' = [req EXCEPT ![r] =
                            Respond(req[r], 500,
                                    IF req[r].fifo THEN "Insufficient stock for FIFO"
                                    ELSE "Insufficient stock for AVG", 0)]
               /\ now' = now
          ELSE \E d \in D :
                 /\ now' = DateNow(d)
                 /\ req' = [req EXCEPT ![r].cogs = res.cogs,
                                       ![r].tx = SaleTx(r, res.cogs, DateNow(d)),
                                       ![r].pc = "s_writeTx"]
  /\ UNCHANGED <<products, balances, payables, ledger, nameOrder, temps, lock>>

\* balances[productId][warehouseId] = avail - quantity, on the document read
\* at the start of the handler.
Decreased(doc, p, w, avail, q) == [doc EXCEPT !.qty[p][w] = avail - q]

\* writeTransaction, then the assignment above: a TypeError when the
\* document read has no object for the product.
SaleWriteTx(r) ==
  /\ req[r].pc = "s_writeTx"
  /\ WriteTransaction(req[r].tx)
  /\ req' = [req EXCEPT ![r] =
               IF ~req[r].bal.has[req[r].productId]
               THEN Respond(req[r], 500, "TypeError", 0)
               ELSE [req[r] EXCEPT !.bal = Decreased(req[r].bal, req[r].productId,
                                                     req[r].warehouseId, req[r].avail,
                                                     req[r].quantity),
                                   !.pc = "s_lockBalances"]]
  /\ UNCHANGED <<products, balances, payables, temps, now, lock>>

\* The consumption pass entered whatever the costing method.
SaleWriteBalancesAlwaysConsume(r) ==
  /\ req[r].pc = "s_writeBalances"
  /\ balances' = req[r].bal
  /\ lock' = [lock EXCEPT !["balances"] = 0]
  /\ req' = [req EXCEPT ![r].pc = "s_readdir"]
  /\ UNCHANGED <<products, payables, ledger, nameOrder, temps, now>>

\* saveBalances' write under the lock, the release, then
\* if ((costingMethod||'FIFO').toUpperCase() === 'FIFO') { ... }
SaleWriteBalances(r) ==
  /\ req[r].pc = "s_writeBalances"
  /\ balances' = req[r].bal
  /\ lock' = [lock EXCEPT !["balances"] = 0]
  /\ req' = [req EXCEPT ![r] =
               IF req[r].fifo THEN [req[r] EXCEPT !.pc = "s_readdir"]
               ELSE Respond(req[r], 200, "", 0)]
  /\ UNCHANGED <<products, payables, ledger, nameOrder, temps, now>>

\* const files = await fs.readdir(TRANSACTIONS_DIR); files.sort();
SaleReaddir(r) ==
  /\ req[r].pc = "s_readdir"
  /\ req' = [req EXCEPT ![r].files = SortedNames, ![r].idx = 1,
                        ![r].rtc = req[r].quantity, ![r].pc = "s_consumeRead"]
  /\ UNCHANGED <<products, balances, payables, ledger, nameOrder, temps, now, lock>>

\* The files of the listing from position i on that the loop body acts on: a
\* PURCHASE of the pair whose remaining, as read, is positive.
Consumable(r, j) ==
  /\ ~Enoent(req[r].files[j])
  /\ IsLot(ReadJson(req[r].files[j]), req[r].productId, req[r].warehouseId)
  /\ Available(ReadJson(req[r].files[j])) > 0

\* The reads of the consumption loop up to the next lot it will write (the
\* files it passes over are read and left alone), to a name that is gone (the
\* readJson of line 566 is in no try/catch of its own: the handler's catch
\* answers 500), or to the end of the listing.
SaleConsumeRead(r) ==
  /\ req[r].pc = "s_consumeRead"
  /\ LET next == {j \in req[r].idx..Len(req[r].files) :
                    Enoent(req[r].files[j]) \/ Consumable(r, j)}
     IN req' = [req EXCEPT ![r] =
                  IF next = {}
                  THEN Respond(req[r], 200, "", 0)
                  ELSE LET j == CHOOSE a \in next : \A b \in next : a <= b
                           obj == ReadJson(req[r].files[j])
                       IN IF Enoent(req[r].files[j])
                          THEN Respond(req[r], 500, "ENOENT", 0)
                          ELSE [req[r] EXCEPT !.idx = j,
                                              !.obj = [obj EXCEPT !.hasRemaining = TRUE,
                                                                  !.remaining = Available(obj)],
                                              !.pc = "s_consumeWrite"]]
  /\ UNCHANGED <<products, balances, payables, ledger, nameOrder, temps, now, lock>>

\* take = Math.min(obj.remaining, remainingToConsume); obj.remaining -= take;
\* remainingToConsume -= take; atomicWriteJson(full, obj); break when 0.
SaleConsumeWrite(r) ==
  /\ req[r].pc = "s_consumeWrite"
  /\ LET take == Min(req[r].obj.remaining, req[r].rtc)
         obj == [req[r].obj EXCEPT !.remaining = req[r].obj.remaining - take]
         rest == req[r].rtc - take
         full == req[r].files[req[r].idx]
     IN /\ IF full.tmp
           THEN temps' = [temps EXCEPT ![full.id] = obj] /\ ledger' = ledger
           ELSE ledger' = [ledger EXCEPT ![FileOf(full.id)] = obj] /\ temps' = temps
        /\ req' = [req EXCEPT ![r] =
                     IF rest = 0
                     THEN Respond(req[r], 200, "", 0)
                     ELSE [req[r] EXCEPT !.rtc = rest, !.idx = req[r].idx + 1,
                                         !.obj = NoTx, !.pc = "s_consumeRead"]]
  /\ UNCHANGED <<products, balances, payables, nameOrder, now, lock>>

\* ------------------------------------------ atomicWriteJson in its two steps
\* The writes of the transaction directory cut at the await between
\* fs.writeFile(tmp) and fs.rename(tmp, filePath). writeFile itself is one
\* step: the temporary file appears with its whole text.

\* writeTransaction of the purchase: await fs.writeFile(tmp, text, 'utf8').
PurchaseWriteTxTmp(r) ==
  /\ req[r].pc = "p_writeTx"
  /\ temps' = [temps EXCEPT ![r] = req[r].tx]
  /\ req' = [req EXCEPT ![r].pc = "p_renameTx"]
  /\ UNCHANGED <<products, balances, payables, ledger, nameOrder, now, lock>>

\* await fs.rename(tmp, filePath): what the temporary file holds by now
\* becomes the file; ENOENT when the temporary file is gone.
PurchaseRenameTx(r) ==
  /\ req[r].pc = "p_renameTx"
  /\ IF HasTemp(r)
     THEN /\ WriteTransaction(temps[r])
          /\ temps' = [temps EXCEPT ![r] = NoTx]
          /\ req' = [req EXCEPT ![r].pc = "p_getPayables"]
     ELSE /\ req' = [req EXCEPT ![r] = Respond(req[r], 500, "ENOENT", 0)]
          /\ UNCHANGED <<ledger, nameOrder, temps>>
  /\ UNCHANGED <<products, balances, payables, now, lock>>

\* writeTransaction of the sale: await fs.writeFile(tmp, text, 'utf8').
SaleWriteTxTmp(r) ==
  /\ req[r].pc = "s_writeTx"
  /\ temps' = [temps EXCEPT ![r] = req[r].tx]
  /\ req' = [req EXCEPT ![r].pc = "s_renameTx"]
  /\ UNCHANGED <<products, balances, payables, ledger, nameOrder, now, lock>>

\* await fs.rename(tmp, filePath), then the assignment to the balances read
\* (a TypeError when the document read has no object for the product).
SaleRenameTx(r) ==
  /\ req[r].pc = "s_renameTx"
  /\ IF HasTemp(r)
     THEN /\ WriteTransaction(temps[r])
          /\ temps' = [temps EXCEPT ![r] = NoTx]
          /\ req' = [req EXCEPT ![r] =
                       IF ~req[r].bal.has[req[r].productId]
                       THEN Respond(req[r], 500, "TypeError", 0)
                       ELSE [req[r] EXCEPT !.bal = Decreased(req[r].bal, req[r].productId,
                                                             req[r].warehouseId, req[r].avail,
                                                             req[r].quantity),
                                           !.pc = "s_lockBalances"]]
     ELSE /\ req' = [req EXCEPT ![r] = Respond(req[r], 500, "ENOENT", 0)]
          /\ UNCHANGED <<ledger, nameOrder, temps>>
  /\ UNCHANGED <<products, balances, payables, now, lock>>

\* take = Math.min(obj.remaining, remainingToConsume); obj.remaining -= take;
\* remainingToConsume -= take; then atomicWriteJson(full, obj) up to its
\* await fs.writeFile(tmp): the temporary file of full is created, or
\* overwritten when another writer of full has left its own there. When full
\* is itself a temporary file, the write to it (through a temporary file of
\* its own, which nothing else names) is taken whole in this step.
SaleConsumeWriteTmp(r) ==
  /\ req[r].pc = "s_consumeWrite"
  /\ LET take == Min(req[r].obj.remaining, req[r].rtc)
         obj == [req[r].obj EXCEPT !.remaining = req[r].obj.remaining - take]
         rest == req[r].rtc - take
         full == req[r].files[req[r].idx]
     IN /\ temps' = [temps EXCEPT ![full.id] = obj]
        /\ req' = [req EXCEPT ![r] =
                     IF ~full.tmp
                     THEN [req[r] EXCEPT !.obj = obj, !.rtc = rest, !.pc = "s_consumeRename"]
                     ELSE IF rest = 0
                     THEN Respond(req[r], 200, "", 0)
                     ELSE [req[r] EXCEPT !.rtc = rest, !.idx = req[r].idx + 1,
                                         !.obj = NoTx, !.pc = "s_consumeRead"]]
  /\ UNCHANGED <<products, balances, payables, ledger, nameOrder, now, lock>>

\* await fs.rename(tmp, full) of the consumption pass: what the temporary
\* file holds by now (this writer's object or another's) replaces the lot;
\* ENOENT when another writer of full has renamed the temporary file away.
\* Then: if (remainingToConsume === 0) break.
SaleConsumeRename(r) ==
  /\ req[r].pc = "s_consumeRename"
  /\ LET full == req[r].files[req[r].idx]
     IN IF HasTemp(full.id)
        THEN /\ ledger' = [ledger EXCEPT ![FileOf(full.id)] = temps[full.id]]
             /\ temps' = [temps EXCEPT ![full.id] = NoTx]
             /\ req' = [req EXCEPT ![r] =
                          IF req[r].rtc = 0
                          THEN Respond(req[r], 200, "", 0)
                          ELSE [req[r] EXCEPT !.idx = req[r].idx + 1,
                                              !.obj = NoTx, !.pc = "s_consumeRead"]]
        ELSE /\ req' = [req EXCEPT ![r] = Respond(req[r], 500, "ENOENT", 0)]
             /\ UNCHANGED <<ledger, temps>>
  /\ UNCHANGED <<products, balances, payables, nameOrder, now, lock>>

\* ------------------------------------- POST / PUT / DELETE /api/products
ProductKinds == {"createProduct", "updateProduct", "deleteProduct"}

\* body.name is present or not (POST); :id names a product (PUT, DELETE).
ProductStart(r, inflight) ==
  /\ CanStart(r, inflight)
  /\ \/ \E named \in BOOLEAN :
          LET rec == [NoReq EXCEPT !.op = "createProduct"]
          IN req' = [req EXCEPT ![r] =
                       IF ~named THEN Respond(rec, 400, "name required", 0)
                       ELSE [rec EXCEPT !.pc = "c_getProducts"]]
     \/ \E kind \in ProductKinds \ {"createProduct"}, p \in Products :
          req' = [req EXCEPT ![r] =
                    [NoReq EXCEPT !.op = kind, !.productId = p, !.pc = "c_getProducts"]]
  /\ UNCHANGED <<products, balances, payables, ledger, nameOrder, temps, now, lock>>

\* products[id] = {...} with id = uuidv4(); products[id] = {...products[id],
\* ...req.body} (the fields are not modelled); delete products[id].
Changed(doc, kind, p, r) ==
  CASE kind = "createProduct" -> [doc EXCEPT !.made = @ \cup {r}]
    [] kind = "deleteProduct" -> [doc EXCEPT !.has[p] = FALSE]
    [] OTHER -> doc

\* getProducts, the 404 of PUT and DELETE, and the change of the copy.
ProductGetProducts(r) ==
  /\ req[r].pc = "c_getProducts"
  /\ req' = [req EXCEPT ![r] =
               IF req[r].op # "createProduct" /\ ~products.has[req[r].productId]
               THEN Respond(req[r], 404, "not found", 0)
               ELSE [req[r] EXCEPT !.prod = Changed(products, req[r].op,
                                                    req[r].productId, r),
                                   !.pc = "c_lockProducts"]]
  /\ UNCHANGED <<products, balances, payables, ledger, nameOrder, temps, now, lock>>

\* saveProducts' write under the lock, the release, and res.json.
ProductWriteProducts(r) ==
  /\ req[r].pc = "c_writeProducts"
  /\ products' = req[r].prod
  /\ lock' = [lock EXCEPT !["products"] = 0]
  /\ req' = [req EXCEPT ![r] = Respond(req[r], 200, "", 0)]
  /\ UNCHANGED <<balances, payables, ledger, nameOrder, temps, now>>

\* withLock: lockfile.lock threw after its retries inside saveProducts. The
\* products handlers have no try/catch, so the promise of the async handler
\* rejects with nobody to handle it (Express 4, the version whose route
\* syntax line 633 uses, ignores the promise a handler returns): no response
\* is ever sent, and depending on the Node.js version the process goes on
\* ("unhandled") or exits, taking every request in flight with it ("exited").
ProductLockGiveUp(r) ==
  /\ req[r].pc = "c_lockProducts"
  /\ LockHeldByOther("products", r)
  /\ \/ req' = [req EXCEPT ![r].pc = "unhandled"]
     \/ req' = [q \in Reqs |->
                  IF InFlight(q) THEN [req[q] EXCEPT !.pc = "exited"] ELSE req[q]]
  /\ UNCHANGED <<products, balances, payables, ledger, nameOrder, temps, now, lock>>

\* ---------------------------------------------------- GET /api/report/pnl
\* parseInt(q) || dflt: NaN (absent) and 0 are falsy.
ParseIntOr(q, dflt) == IF q.given /\ q.val # 0 THEN q.val ELSE dflt

\* from and to are computed, then fs.readdir is awaited.
PnlStart(r, inflight, B, D) ==
  /\ CanStart(r, inflight)
  /\ \E f \in B, t \in B, d \in D :
       LET calls == ~(t.given /\ t.val # 0)
       IN /\ now' = IF calls THEN DateNow(d) ELSE now
          /\ req' = [req EXCEPT ![r] =
                       [NoReq EXCEPT !.op = "pnl", !.pc = "r_scan", !.qfrom = f, !.qto = t,
                                     !.from = ParseIntOr(f, 0),
                                     !.to = ParseIntOr(t, DateNow(d))]]
  /\ UNCHANGED <<products, balances, payables, ledger, nameOrder, temps, lock>>

\* (obj.cogs||0): 0 and NaN are falsy.
CogsOrZero(c) == IF c.den = 0 THEN RatInt(0) ELSE c

\* The loop over the files from entry i on, with the sums so far.
RECURSIVE PnlLoop(_, _, _, _)
PnlLoop(i, from, to, acc) ==
  IF i > Len(DirectoryObjects) THEN acc
  ELSE LET obj == DirectoryObjects[i]
       IN IF obj.timestamp < from \/ obj.timestamp > to
          THEN PnlLoop(i + 1, from, to, acc)
          ELSE PnlLoop(i + 1, from, to,
                 [acc EXCEPT
                    !.revenue = IF obj.type = "SALE" THEN @ + obj.total ELSE @,
                    !.cogs = IF obj.type = "SALE" THEN RatAdd(@, CogsOrZero(obj.cogs)) ELSE @,
                    !.purchases = IF obj.type = "PURCHASE" THEN @ + obj.total ELSE @])

\* The listing arrives, the files are read and summed, and the report is sent:
\* the fields read never change once a file is written, so the sums are those
\* of the files listed.
PnlScan(r) ==
  /\ req[r].pc = "r_scan"
  /\ LET sums == PnlLoop(1, req[r].from, req[r].to, NoReport)
     IN req' = [req EXCEPT ![r] =
                  [req[r] EXCEPT !.pc = "done", !.status = 200,
                                 !.report = [sums EXCEPT !.grossProfit =
                                               RatSub(RatInt(sums.revenue), sums.cogs)]]]
  /\ UNCHANGED <<products, balances, payables, ledger, nameOrder, temps, now, lock>>

\* ----------------------------------------------------------- specifications
\* The products and suppliers a new request may name. Products (and
\* suppliers) are interchangeable, so the first request to name one names
\* "p1" ("s1"); every other behaviour is one of these with the names swapped.
ProductsInUse ==
  IF \E q \in Reqs : req[q].productId = "p1" THEN Products ELSE {"p1"}

SuppliersInUse ==
  IF \E q \in Reqs : req[q].supplierId = "s1" THEN Suppliers ELSE {"s1"}

\* Purchases and sales interleaving at their await points.
Next ==
  \E r \in Reqs :
    \/ PurchaseStart(r, MaxInFlight, ProductsInUse, {"s1"}, Quantities, UnitCosts)
    \/ PurchaseGetBalances(r)
    \/ PurchaseWriteBalances(r, {1})
    \/ PurchaseWriteTx(r)
    \/ PurchaseGetPayables(r)
    \/ PurchaseWritePayables(r)
    \/ SaleStart(r, MaxInFlight, ProductsInUse, Quantities)
    \/ SaleGetBalances(r)
    \/ SaleCost(r, {1})
    \/ SaleWriteTx(r)
    \/ SaleWriteBalances(r)
    \/ SaleReaddir(r)
    \/ SaleConsumeRead(r)
    \/ SaleConsumeWrite(r)
    \/ LockAcquire(r)
    \/ LockGiveUp(r)

Spec == Init /\ [][Next]_vars

\* Purchases and payments interleaving at their await points.
NextPay ==
  \E r \in Reqs :
    \/ PurchaseStart(r, MaxInFlight, {"p1"}, SuppliersInUse, PayQuantities, PayUnitCosts)
    \/ PurchaseGetBalances(r)
    \/ PurchaseWriteBalances(r, {1})
    \/ PurchaseWriteTx(r)
    \/ PurchaseGetPayables(r)
    \/ PurchaseWritePayables(r)
    \/ PayStart(r, MaxInFlight, SuppliersInUse, Amounts)
    \/ PayGetPayables(r)
    \/ PayWritePayables(r)
    \/ LockAcquire(r)
    \/ LockGiveUp(r)

SpecPay == Init /\ [][NextPay]_vars

\* Purchases and sales one at a time, each in a later millisecond than the last.
NextSeq ==
  \E r \in Reqs :
    \/ PurchaseStart(r, 1, ProductsInUse, {"s1"}, SeqQuantities, SeqUnitCosts)
    \/ PurchaseGetBalances(r)
    \/ PurchaseWriteBalances(r, {1})
    \/ PurchaseWriteTx(r)
    \/ PurchaseGetPayables(r)
    \/ PurchaseWritePayables(r)
    \/ SaleStart(r, 1, ProductsInUse, SeqQuantities)
    \/ SaleGetBalances(r)
    \/ SaleCost(r, {1})
    \/ SaleWriteTx(r)
    \/ SaleWriteBalances(r)
    \/ SaleReaddir(r)
    \/ SaleConsumeRead(r)
    \/ SaleConsumeWrite(r)
    \/ LockAcquire(r)

SpecSeq == Init /\ [][NextSeq]_vars

\* Date.now() where two calls may fall in the same millisecond; the first
\* call of a behaviour returns a positive time.
TieTicks == IF now = 0 THEN {1} ELSE {0, 1}

\* Purchases, sales and reports one at a time; consecutive transactions may
\* carry the same timestamp.
NextScan ==
  \E r \in Reqs :
    \/ PurchaseStart(r, 1, {"p1"}, {"s1"}, ScanQuantities, ScanUnitCosts)
    \/ PurchaseGetBalances(r)
    \/ PurchaseWriteBalances(r, TieTicks)
    \/ PurchaseWriteTx(r)
    \/ PurchaseGetPayables(r)
    \/ PurchaseWritePayables(r)
    \/ SaleStart(r, 1, {"p1"}, ScanQuantities)
    \/ SaleGetBalances(r)
    \/ SaleCost(r, TieTicks)
    \/ SaleWriteTx(r)
    \/ SaleWriteBalances(r)
    \/ SaleReaddir(r)
    \/ SaleConsumeRead(r)
    \/ SaleConsumeWrite(r)
    \/ PnlStart(r, 1, Bounds, TieTicks)
    \/ PnlScan(r)
    \/ LockAcquire(r)

SpecScan == Init /\ [][NextScan]_vars

\* The products routes and purchases interleaving at their await points.
NextProd ==
  \E r \in Reqs :
    \/ ProductStart(r, MaxInFlight)
    \/ ProductGetProducts(r)
    \/ ProductWriteProducts(r)
    \/ ProductLockGiveUp(r)
    \/ PurchaseStart(r, MaxInFlight, Products, {"s1"}, ProdQuantities, UnitCosts)
    \/ PurchaseGetBalances(r)
    \/ PurchaseWriteBalances(r, {1})
    \/ PurchaseWriteTx(r)
    \/ PurchaseGetPayables(r)
    \/ PurchaseWritePayables(r)
    \/ LockAcquire(r)
    \/ LockGiveUp(r)

SpecProd == Init /\ [][NextProd]_vars

\* Purchases and sales of one product interleaving at their await points,
\* those inside atomicWriteJson included.
NextTmp ==
  \E r \in Reqs :
    \/ PurchaseStart(r, MaxInFlight, {"p1"}, {"s1"}, TmpQuantities, UnitCosts)
    \/ PurchaseGetBalances(r)
    \/ PurchaseWriteBalances(r, {1})
    \/ PurchaseWriteTxTmp(r)
    \/ PurchaseRenameTx(r)
    \/ PurchaseGetPayables(r)
    \/ PurchaseWritePayables(r)
    \/ SaleStart(r, MaxInFlight, {"p1"}, TmpQuantities)
    \/ SaleGetBalances(r)
    \/ SaleCost(r, {1})
    \/ SaleWriteTxTmp(r)
    \/ SaleRenameTx(r)
    \/ SaleWriteBalances(r)
    \/ SaleReaddir(r)
    \/ SaleConsumeRead(r)
    \/ SaleConsumeWriteTmp(r)
    \/ SaleConsumeRename(r)
    \/ LockAcquire(r)
    \/ LockGiveUp(r)

SpecTmp == Init /\ [][NextTmp]_vars

\* Purchases and sales of one product one at a time, each in a later
\* millisecond than the last, with quantities of either sign.
NextSigned ==
  \E r \in Reqs :
    \/ PurchaseStart(r, 1, {"p1"}, {"s1"}, SignedQuantities, UnitCosts)
    \/ PurchaseGetBalances(r)
    \/ PurchaseWriteBalances(r, {1})
    \/ PurchaseWriteTx(r)
    \/ PurchaseGetPayables(r)
    \/ PurchaseWritePayables(r)
    \/ SaleStart(r, 1, {"p1"}, SignedQuantities)
    \/ SaleGetBalances(r)
    \/ SaleCost(r, {1})
    \/ SaleWriteTx(r)
    \/ SaleWriteBalances(r)
    \/ SaleReaddir(r)
    \/ SaleConsumeRead(r)
    \/ SaleConsumeWrite(r)
    \/ LockAcquire(r)

SpecSigned == Init /\ [][NextSigned]_vars

\* ------------------------------------------------------- ledger measurements
Pairs == Products \X Warehouses

\* Sum of f over the entries of the ledger from index i on.
RECURSIVE LedgerSum(_, _)
LedgerSum(f(_), i) ==
  IF i > Len(ledger) THEN 0 ELSE f(ledger[i]) + LedgerSum(f, i + 1)

\* A full replay of the transaction directory for one pair.
Replay(p, w) ==
  LET signed(tx) ==
        IF tx.productId = p /\ tx.warehouseId = w
        THEN (IF tx.type = "PURCHASE" THEN tx.quantity ELSE -tx.quantity)
        ELSE 0
  IN LedgerSum(signed, 1)

Purchased(p, w) ==
  LET qty(tx) == IF IsLot(tx, p, w) THEN tx.quantity ELSE 0
  IN LedgerSum(qty, 1)

TotalRemaining(p, w) ==
  LET rem(tx) == IF IsLot(tx, p, w) THEN Available(tx) ELSE 0
  IN LedgerSum(rem, 1)

\* Units of the FIFO sales of the pair that were answered 200.
RECURSIVE FifoSold(_, _, _)
FifoSold(p, w, r) ==
  IF r > MaxReq THEN 0
  ELSE (IF /\ req[r].op = "sale" /\ req[r].fifo /\ req[r].status = 200
           /\ req[r].productId = p /\ req[r].warehouseId = w
        THEN req[r].quantity ELSE 0) + FifoSold(p, w, r + 1)

\* Every request issued so far was answered 200 and had a positive quantity.
AllServed ==
  \A r \in Reqs :
    req[r].op # "none" => req[r].pc = "done" /\ req[r].status = 200 /\ req[r].quantity > 0

\* A sale that passed the availability check and has not yet written its
\* decrement to the balances document.
Admitted(r) ==
  /\ req[r].op = "sale"
  /\ req[r].pc \in {"s_cost", "s_writeTx", "s_lockBalances", "s_writeBalances"}

\* ------------------------------------------------------------------- claims

\* C1: for every (product, warehouse) pair the stored balance equals the sum of
\* its PURCHASE quantities minus the sum of its SALE quantities in the ledger.
\* Stated for the states in which every request issued has been answered 200
\* and had a positive quantity (the claim says it of every state).
C1_BalanceEqualsReplay ==
  AllServed => \A pw \in Pairs : BalanceOf(balances, pw[1], pw[2]) = Replay(pw[1], pw[2])

\* C2: two sales of the same pair, with positive quantities that together
\* exceed the stock, are never both past the availability check on the same
\* reading of the balance.
C2_CheckAndDecrementAtomic ==
  \A r1, r2 \in Reqs :
    (/\ r1 # r2 /\ Admitted(r1) /\ Admitted(r2)
     /\ req[r1].productId = req[r2].productId
     /\ req[r1].warehouseId = req[r2].warehouseId
     /\ req[r1].quantity > 0 /\ req[r2].quantity > 0
     /\ req[r1].avail = req[r2].avail)
    => req[r1].quantity + req[r2].quantity <= req[r1].avail

\* C3: in every reachable state the stored balance of every pair is >= 0.
C3_BalanceNonNegative ==
  \A pw \in Pairs : BalanceOf(balances, pw[1], pw[2]) >= 0

\* C4: the step in which a sale reads a balance lower than its quantity answers
\* 'insufficient stock' and leaves the balances document and the transaction
\* directory (entries, their remaining, their names) as they were.
C4_Step ==
  \A r \in Reqs :
    (/\ req[r].pc = "s_getBalances" /\ req'[r] # req[r]
     /\ BalanceOf(balances, req[r].productId, req[r].warehouseId) < req[r].quantity)
    => /\ req'[r].pc = "done" /\ req'[r].status = 400
       /\ req'[r].error = "insufficient stock"
       /\ balances' = balances /\ ledger' = ledger /\ nameOrder' = nameOrder
       /\ temps' = temps

\* C4, of every step of every behaviour.
C4_RejectedSaleChangesNothing == [][C4_Step]_vars

\* A sale was rejected for a quantity above a positive stock, with lots in
\* the ledger.
C4_Witness ==
  \E r \in Reqs :
    /\ req[r].op = "sale" /\ req[r].error = "insufficient stock"
    /\ req[r].avail > 0 /\ req[r].quantity > req[r].avail
    /\ BalanceOf(balances, req[r].productId, req[r].warehouseId) = req[r].avail
    /\ TotalRemaining(req[r].productId, req[r].warehouseId) > 0

\* C5: k completed FIFO sales of N1..Nk lower the sum of `remaining` of the
\* pair's PURCHASE entries by N1+...+Nk: once every request has been answered
\* 200, the sum is the purchased quantity minus the units sold FIFO. Stated
\* for the pairs whose ledger is not oversold (sales within the purchases).
C5_RemainingDropsBySold ==
  AllServed =>
    \A pw \in Pairs :
      Replay(pw[1], pw[2]) >= 0 =>
        TotalRemaining(pw[1], pw[2]) = Purchased(pw[1], pw[2]) - FifoSold(pw[1], pw[2], 1)

\* The pair's PURCHASE entries in creation order (the order of the ledger).
LotsInCreationOrder(p, w) == SelectSeq(ledger, LAMBDA tx : IsLot(tx, p, w))

\* The reference cost of `need` units: at each lot in turn, min(available,
\* still needed) units at the lot's unit cost, until nothing is needed.
RECURSIVE ReferenceFifo(_, _)
ReferenceFifo(lots, need) ==
  IF need = 0 \/ lots = <<>> THEN 0
  ELSE LET units == Min(Available(Head(lots)), need)
       IN units * Head(lots).unitCost + ReferenceFifo(Tail(lots), need - units)

\* The ledger of the scenario of spec section 8 on one pair: purchase 10 @ 2,
\* purchase 5 @ 4, then a sale of 12 that has been answered, and no request
\* in flight.
Scenario(pw, fifo) ==
  /\ Len(ledger) = 3
  /\ IsLot(ledger[1], pw[1], pw[2]) /\ ledger[1].quantity = 10 /\ ledger[1].unitCost = 2
  /\ IsLot(ledger[2], pw[1], pw[2]) /\ ledger[2].quantity = 5 /\ ledger[2].unitCost = 4
  /\ ledger[3].type = "SALE" /\ ledger[3].productId = pw[1]
  /\ ledger[3].warehouseId = pw[2] /\ ledger[3].quantity = 12
  /\ req[ledger[3].id].pc = "done" /\ req[ledger[3].id].fifo = fifo
  /\ \A r \in Reqs : ~InFlight(r)

\* C6: the COGS written with a FIFO sale of N units is the reference cost of N
\* units over the pair's lots in ascending creation order; and purchases of
\* 10 @ 2 then 5 @ 4 followed by a FIFO sale of 12 give COGS 28, lot A
\* remaining 0, lot B remaining 3 and balance 3.
C6_Step ==
  \A r \in Reqs :
    (req[r].pc = "s_writeTx" /\ req[r].fifo /\ Len(ledger') = Len(ledger) + 1)
    => /\ ledger'[Len(ledger')].type = "SALE"
       /\ ledger'[Len(ledger')].id = r
       /\ ledger'[Len(ledger')].cogs =
            RatInt(ReferenceFifo(LotsInCreationOrder(req[r].productId, req[r].warehouseId),
                                 req[r].quantity))

C6_Scenario ==
  \A pw \in Pairs :
    Scenario(pw, TRUE)
    => /\ req[ledger[3].id].status = 200
       /\ ledger[3].cogs = RatInt(28)
       /\ ledger[1].remaining = 0 /\ ledger[2].remaining = 3
       /\ BalanceOf(balances, pw[1], pw[2]) = 3

C7_Step ==
  \A r \in Reqs :
    (req[r].pc = "s_writeTx" /\ ~req[r].fifo /\ Len(ledger') = Len(ledger) + 1)
    => LET p == req[r].productId
           w == req[r].warehouseId
           weighted(tx) == IF IsLot(tx, p, w) THEN Available(tx) * tx.unitCost ELSE 0
       IN /\ ledger'[Len(ledger')].type = "SALE"
          /\ ledger'[Len(ledger')].id = r
          /\ ledger'[Len(ledger')].cogs =
               Rat(req[r].quantity * LedgerSum(weighted, 1), TotalRemaining(p, w))

C7_Scenario ==
  \A pw \in Pairs :
    Scenario(pw, FALSE)
    => /\ req[ledger[3].id].status = 200
       /\ ledger[3].cogs = RatInt(32)
       /\ ledger[1].remaining = 10 /\ ledger[2].remaining = 5
       /\ BalanceOf(balances, pw[1], pw[2]) = 3

\* C7: the written COGS at every step, and the scenario in every state.
C7_AvgCogs == [][C7_Step]_vars /\ []C7_Scenario

\* The scenario of C7 has run to its answer.
C7_Witness == \E pw \in Pairs : Scenario(pw, FALSE)

\* C8: no step of a sale whose costing method is not FIFO changes an existing
\* ledger entry (so no PURCHASE entry's remaining); such a sale appends one
\* entry, a SALE of its pair, and when it writes the balances document the
\* balance of its pair becomes the balance it read minus its quantity while
\* every other pair keeps the balance of the document the sale read.
C8_Step ==
  \A r \in Reqs :
    (req[r].op = "sale" /\ ~req[r].fifo /\ req'[r] # req[r])
    => /\ \A i \in 1..Len(ledger) : ledger'[i] = ledger[i]
       /\ Len(ledger') <= Len(ledger) + 1
       /\ Len(ledger') = Len(ledger) + 1
            => /\ ledger'[Len(ledger')].type = "SALE"
               /\ ledger'[Len(ledger')].id = r
               /\ ledger'[Len(ledger')].productId = req[r].productId
               /\ ledger'[Len(ledger')].warehouseId = req[r].warehouseId
       /\ balances' # balances
            => \A pw \in Pairs :
                 BalanceOf(balances', pw[1], pw[2]) =
                   IF pw = <<req[r].productId, req[r].warehouseId>>
                   THEN req[r].avail - req[r].quantity
                   ELSE BalanceOf(req[r].bal, pw[1], pw[2])

\* A weighted-average sale answered 200 has exactly one entry in the ledger.
C8_OneSale ==
  \A r \in Reqs :
    (req[r].op = "sale" /\ ~req[r].fifo /\ req[r].status = 200)
    => Cardinality({i \in 1..Len(ledger) : ledger[i].id = r}) = 1

C9_PayableNonNegative == \A s \in Suppliers : payables[s].amount >= 0

\* C10: the step in which a payment finds no payable record for its supplier
\* answers 'no payable' and leaves the payables document as it was; a
\* supplier without a record never has a payment entry or an amount.
C10_Step ==
  \A r \in Reqs :
    (/\ req[r].pc = "y_getPayables" /\ req'[r] # req[r]
     /\ ~payables[req[r].supplierId].exists)
    => /\ req'[r].pc = "done" /\ req'[r].status = 400
       /\ req'[r].error = "no payable"
       /\ payables' = payables

C10_NoRecord ==
  \A s \in Suppliers :
    ~payables[s].exists => payables[s] = NoPayable

\* C10: the rejection at every step, and no record in every state.
C10_UnknownSupplierRejected == [][C10_Step]_vars /\ []C10_NoRecord

\* A payment was answered 'no payable' for a supplier that still has no
\* record, while another supplier has one.
C10_Witness ==
  \E r \in Reqs :
    /\ req[r].op = "pay" /\ req[r].error = "no payable"
    /\ ~payables[req[r].supplierId].exists
    /\ \E s \in Suppliers : payables[s].exists

\* C11: a written ledger entry keeps every field except `remaining`, a SALE
\* entry never changes, and the `remaining` of a PURCHASE entry is changed only
\* by the consumption write of a FIFO sale of its pair, never upwards and
\* never below zero. Stated of the steps of requests with a positive quantity.
C11_Step ==
  (\A r \in Reqs : req'[r] # req[r] => req[r].quantity > 0)
  => /\ Len(ledger') >= Len(ledger)
     /\ \A i \in 1..Len(ledger) :
          /\ [ledger'[i] EXCEPT !.remaining = 0] = [ledger[i] EXCEPT !.remaining = 0]
          /\ ledger[i].type = "SALE" => ledger'[i] = ledger[i]
          /\ ledger'[i].remaining # ledger[i].remaining
               => /\ \E r \in Reqs :
                       /\ req[r].op = "sale" /\ req[r].fifo /\ req[r].pc = "s_consumeWrite"
                       /\ req'[r] # req[r]
                       /\ IsLot(ledger[i], req[r].productId, req[r].warehouseId)
                  /\ ledger'[i].remaining <= ledger[i].remaining
                  /\ ledger'[i].remaining >= 0

\* C11, of every step of every behaviour.
C11_RemainingOnlyDecreases == [][C11_Step]_vars

\* C12: no completed request's update to the payables document is lost: the
\* invoice of every purchase answered 200 and the payment of every payment
\* answered 200 are in the record of their supplier, in every state. Stated
\* of the behaviours whose requests carry no negative quantity or amount.
C12_NoLostUpdate ==
  \A r \in Reqs :
    (/\ req[r].pc = "done" /\ req[r].status = 200
     /\ \A q \in Reqs : req[q].quantity >= 0)
    => LET rec == payables[req[r].supplierId]
       IN /\ req[r].op = "purchase"
               => \E k \in 1..Len(rec.invoices) : rec.invoices[k][1] = r
          /\ req[r].op = "pay"
               => \E k \in 1..Len(rec.payments) : rec.payments[k][1] = r

\* The entries whose timestamp t satisfies lo <= t <= hi.
InWindow(tx, lo, hi) == lo <= tx.timestamp /\ tx.timestamp <= hi

\* Sum of the cogs of the SALE entries of the window, from entry i on.
RECURSIVE WindowCogs(_, _, _)
WindowCogs(i, lo, hi) ==
  IF i > Len(ledger) THEN RatInt(0)
  ELSE RatAdd(IF ledger[i].type = "SALE" /\ InWindow(ledger[i], lo, hi)
              THEN ledger[i].cogs ELSE RatInt(0),
              WindowCogs(i + 1, lo, hi))

\* The report of the window [lo, hi] over the ledger.
WindowReport(lo, hi) ==
  LET rev(tx) == IF tx.type = "SALE" /\ InWindow(tx, lo, hi) THEN tx.total ELSE 0
      pur(tx) == IF tx.type = "PURCHASE" /\ InWindow(tx, lo, hi) THEN tx.total ELSE 0
  IN [revenue |-> LedgerSum(rev, 1), cogs |-> WindowCogs(1, lo, hi),
      purchases |-> LedgerSum(pur, 1),
      grossProfit |-> RatSub(RatInt(LedgerSum(rev, 1)), WindowCogs(1, lo, hi))]

\* C13: the report answered for bounds from and to, both passed by the caller,
\* is the report of the window [from, to] over the entries of the ledger:
\* revenue and cogs over the SALE entries, purchases over the PURCHASE
\* entries, bounds included, grossProfit = revenue - cogs.
C13_Step ==
  \A r \in Reqs :
    (/\ req[r].pc = "r_scan" /\ req'[r].pc = "done"
     /\ req[r].qfrom.given /\ req[r].qto.given)
    => req'[r].report = WindowReport(req[r].qfrom.val, req[r].qto.val)

\* C13, of every step of every behaviour.
C13_ReportWindow == [][C13_Step]_vars

\* C14: the file names of the transaction directory, sorted, list the
\* transactions in creation order (requests running one at a time, so that
\* a transaction created earlier is also written earlier).
C14_NameOrderIsCreationOrder ==
  \A k \in 1..Len(nameOrder) : nameOrder[k] = k

\* The cost of the units taken out of the pair's lots so far: for each lot,
\* quantity - remaining units at the lot's unit cost.
ConsumedCost(p, w) ==
  LET cost(tx) == IF IsLot(tx, p, w) THEN (tx.quantity - Available(tx)) * tx.unitCost ELSE 0
  IN LedgerSum(cost, 1)

\* C15: the lots a FIFO sale decrements, and the amount taken from each, are
\* those its recorded COGS was computed from. Stated of the first sale of a
\* ledger, once it is answered and nothing is in flight: the units missing
\* from the lots, at the lots' unit costs, add up to the sale's COGS.
C15_ConsumedIsCosted ==
  \A r \in Reqs :
    (/\ req[r].op = "sale" /\ req[r].fifo /\ req[r].status = 200
     /\ Cardinality({i \in 1..Len(ledger) : ledger[i].type = "SALE"}) = 1
     /\ \A q \in Reqs : ~InFlight(q))
    => \E i \in 1..Len(ledger) :
         /\ ledger[i].id = r /\ ledger[i].type = "SALE"
         /\ ledger[i].cogs = RatInt(ConsumedCost(req[r].productId, req[r].warehouseId))

\* C16: the balances document never includes a purchase's quantity while that
\* purchase's ledger entry is not in the transaction directory: with no
\* negative quantity among the requests, the balance of a pair is at most the
\* sum of the quantities of the pair's PURCHASE entries.
C16_LedgerBeforeBalance ==
  (\A r \in Reqs : req[r].quantity >= 0)
  => \A pw \in Pairs : BalanceOf(balances, pw[1], pw[2]) <= Purchased(pw[1], pw[2])

\* C17: a sale that passed the availability check is never answered
\* 'Insufficient stock for FIFO' by the costing step, whatever else is in
\* progress. Stated of the behaviours with no negative quantity and no
\* weighted-average sale, in which every sale is within the stock it read.
C17_FifoNeverInsufficient ==
  (\A q \in Reqs : req[q].quantity >= 0 /\ (req[q].op = "sale" => req[q].fifo))
  => \A r \in Reqs : req[r].error # "Insufficient stock for FIFO"

\* The request is past its saveBalances call: its change of the balance is in
\* the balances document (or was, until a later writer replaced the document).
BalanceSaved(r) ==
  req[r].pc \in {"p_writeTx", "p_getPayables", "p_lockPayables", "p_writePayables",
                 "s_readdir", "s_consumeRead", "s_consumeWrite"}

\* C18: when a purchase or a sale (of a positive quantity) is answered with a
\* 500 error, its ledger entry and its balance change are both persisted or
\* both absent.
C18_Step ==
  \A r \in Reqs :
    (/\ req[r].op \in {"purchase", "sale"} /\ req[r].quantity > 0
     /\ req[r].pc # "done" /\ req'[r].pc = "done" /\ req'[r].status = 500)
    => ((\E i \in 1..Len(ledger') : ledger'[i].id = r) <=> BalanceSaved(r))

\* C18, of every step of every behaviour.
C18_AllOrNothing == [][C18_Step]_vars

\* C19: a request that gives up waiting for a document lock is answered with
\* an error: no request is left without a response by a rejection that no
\* handler catches.
C19_GiveUpIsAnswered ==
  \A r \in Reqs : req[r].pc \notin {"unhandled", "exited"}

\* C20: operations on different (product, warehouse) keys do not interfere:
\* when no two of the requests issued name the same key and each was answered
\* 200 (positive quantities), the balance of every key is that of its own
\* operation, which is the replay of the key's ledger entries.
C20_KeysIndependent ==
  (/\ AllServed
   /\ \A r1, r2 \in Reqs :
        (r1 # r2 /\ req[r1].op # "none" /\ req[r2].op # "none")
        => <<req[r1].productId, req[r1].warehouseId>> # <<req[r2].productId, req[r2].warehouseId>>)
  => \A pw \in Pairs : BalanceOf(balances, pw[1], pw[2]) = Replay(pw[1], pw[2])

\* C21: a reader running next to a write sees each transaction file whole,
\* old or new, and nothing else: the consumption pass of a sale never takes a
\* temporary file of atomicWriteJson for a ledger entry (it is never about to
\* rewrite one as a lot), no read of a listed name and no rename fails on a
\* temporary file that is gone (no request is answered 500 with ENOENT), so
\* no writer loses its temporary file to another.
C21_TemporaryFilesUnseen ==
  \A r \in Reqs :
    /\ req[r].pc = "s_consumeWrite" => ~req[r].files[req[r].idx].tmp
    /\ req[r].error # "ENOENT"

\* No request is in flight: every request issued has been answered.
Quiescent == \A r \in Reqs : ~InFlight(r)

\* C22: with requests run one at a time and every sale costed FIFO, after each
\* completed purchase or sale the sum of remaining over the PURCHASE entries
\* of every (product, warehouse) pair equals the stored balance of the pair.
C22_RemainingEqualsBalance ==
  (Quiescent /\ \A r \in Reqs : req[r].op = "sale" => req[r].fifo)
    => \A pw \in Pairs : TotalRemaining(pw[1], pw[2]) = BalanceOf(balances, pw[1], pw[2])
====
